---- MODULE Spec2Model ----
(***************************************************************************)
(* State-machine model of the archive normalisation engine                 *)
(* (src/src/archive_cleaner.rs) and of the format dispatcher that calls it *)
(* (src/src/file_handler.rs).                                              *)
(*                                                                         *)
(* A path is a sequence of tokens of one directory, "." being a token:     *)
(* <<"a", ".", "zip">> is a.zip.  A file is [fmt, entries, final]: the     *)
(* container format, the entries appended so far, and whether the central  *)
(* directory has been written.  An entry is [name, w, h, px, data, valid]: *)
(* px tags the picture, data tells that the entry's bytes were written,    *)
(* valid that they decode.                                                 *)
(***************************************************************************)
EXTENDS Integers, Sequences, FiniteSets, TLC

\* ------------------------------------------------------------------ bounds
MaxImages == 2
MaxFaults == 1
MaxPasses == 2

\* ------------------------------------------------------- program constants
IMAGE_SIZE == <<1024, 1024>>
HandlerMaxImagesToCheck == 5
MaxImagesToCheckInputs == {1, HandlerMaxImagesToCheck}

NoHolder == -1
NoPath == <<>>
NoWriter == [path |-> NoPath, open |-> FALSE]

\* ------------------------------------------------------------------- paths
Min(a, b) == IF a < b THEN a ELSE b
Max(a, b) == IF a < b THEN b ELSE a

LastDot(s) ==
  LET dots == {i \in 1..Len(s) : s[i] = "."}
  IN IF dots = {} THEN 0 ELSE CHOOSE i \in dots : \A j \in dots : j <= i

\* filename.rsplit_once('.').unwrap_or((&filename, "")): the name part
extract_file_info(file_path) ==
  IF LastDot(file_path) = 0 THEN file_path
  ELSE SubSeq(file_path, 1, LastDot(file_path) - 1)

\* Path::extension(): the part after the last dot of a name that has one
\* which is not its first character
extension(file_path) ==
  IF LastDot(file_path) <= 1 THEN <<>>
  ELSE SubSeq(file_path, LastDot(file_path) + 1, Len(file_path))

\* dir_path.join(format!("{}.temp.cbz", name))
temp_archive_path(name) == name \o <<".", "temp", ".", "cbz">>
\* dir_path.join(format!("{}.cbz", name))
cbz_archive_path(name) == name \o <<".", "cbz">>
\* self.dir_path.join(format!("{}.zip", self.file_name))
zip_path_of(name) == name \o <<".", "zip">>

\* ------------------------------------------------------------------ images
is_image(name) == name.ext \in {"webp", "jpg", "jpeg", "png"}

\* image::load_from_memory(&file_data) succeeds
Decodes(e) == e.valid /\ e.data

RECURSIVE DecodeEntries(_)
DecodeEntries(es) ==
  IF es = <<>> THEN <<>>
  ELSE LET e == Head(es)
       IN (IF is_image(e.name) /\ Decodes(e)
           THEN <<[w |-> e.w, h |-> e.h, px |-> e.px]>> ELSE <<>>)
          \o DecodeEntries(Tail(es))

\* as image_meets_criteria, a page being oversized when either side is
image_meets_criteria_either(w, h) ==
  \/ (h >= 3 * w /\ h > IMAGE_SIZE[2])
  \/ (h < 3 * w /\ (w > IMAGE_SIZE[1] \/ h > IMAGE_SIZE[2]))

image_meets_criteria(w, h) ==
  \/ (h >= 3 * w /\ h > IMAGE_SIZE[2])
  \/ (h < 3 * w /\ w > IMAGE_SIZE[1] /\ h > IMAGE_SIZE[2])

ArchiveTypeOf(w, h) == IF h >= 3 * w THEN "Manhwa" ELSE "Manga"

\* as ScanFrom, without the early return: the scan goes on over the whole
\* sample and archive_type is left as its last image set it
RECURSIVE ScanFrom_no_early_return(_, _, _, _)
ScanFrom_no_early_return(imgs, i, max_images_to_check, archive_type) ==
  IF i > Len(imgs) \/ i > max_images_to_check
  THEN [write |-> FALSE, archive_type |-> archive_type]
  ELSE LET rest == ScanFrom_no_early_return(imgs, i + 1, max_images_to_check,
                                            ArchiveTypeOf(imgs[i].w, imgs[i].h))
       IN [write |-> image_meets_criteria(imgs[i].w, imgs[i].h) \/ rest.write,
           archive_type |-> rest.archive_type]

\* The scan of should_write_archive over images[i..], at most
\* max_images_to_check of them in all; archive_type is the field as the scan
\* leaves it.
RECURSIVE ScanFrom(_, _, _, _)
ScanFrom(imgs, i, max_images_to_check, archive_type) ==
  IF i > Len(imgs) \/ i > max_images_to_check
  THEN [write |-> FALSE, archive_type |-> archive_type]
  ELSE IF image_meets_criteria(imgs[i].w, imgs[i].h)
       THEN [write |-> TRUE, archive_type |-> ArchiveTypeOf(imgs[i].w, imgs[i].h)]
       ELSE ScanFrom(imgs, i + 1, max_images_to_check,
                     ArchiveTypeOf(imgs[i].w, imgs[i].h))

\* as should_write_archive, without take(max_images_to_check)
should_write_archive_unbounded(imgs, max_images_to_check) ==
  ScanFrom(imgs, 1, Len(imgs), "Manga")

should_write_archive(imgs, max_images_to_check) ==
  ScanFrom(imgs, 1, max_images_to_check, "Manga")

RECURSIVE SumHeights(_)
SumHeights(imgs) ==
  IF imgs = <<>> THEN 0 ELSE Head(imgs).h + SumHeights(Tail(imgs))

RECURSIVE MaxWidth(_)
MaxWidth(imgs) ==
  IF imgs = <<>> THEN 0 ELSE Max(Head(imgs).w, MaxWidth(Tail(imgs)))

combine_images(imgs) == [w |-> MaxWidth(imgs), h |-> SumHeights(imgs)]

\* as num_slices, the division rounding down
num_slices_floor(total_height) == total_height \div IMAGE_SIZE[2]

\* (total_height + slice_height - 1) / slice_height
num_slices(total_height) ==
  (total_height + IMAGE_SIZE[2] - 1) \div IMAGE_SIZE[2]

\* the band cropped for slice_index: rows [slice_index * slice_height, slice_bottom)
crop_image(canvas, slice_index) ==
  LET y_offset == slice_index * IMAGE_SIZE[2]
      slice_bottom == Min((slice_index + 1) * IMAGE_SIZE[2], canvas.h)
  IN [y |-> y_offset, w |-> canvas.w, h |-> slice_bottom - y_offset]

\* round(a / b) for positive integers
RoundDiv(a, b) == (2 * a + b) \div (2 * b)

\* image.thumbnail(nwidth, nheight): scale by min(nwidth/w, nheight/h),
\* each side rounded and at least 1
thumbnail(img, nwidth, nheight) ==
  IF nwidth * img.h <= nheight * img.w
  THEN [w |-> Max(RoundDiv(img.w * nwidth, img.w), 1),
        h |-> Max(RoundDiv(img.h * nwidth, img.w), 1), px |-> img.px]
  ELSE [w |-> Max(RoundDiv(img.w * nheight, img.h), 1),
        h |-> Max(RoundDiv(img.h * nheight, img.h), 1), px |-> img.px]

\* format!("{}.webp", n)
webp_name(n) == [num |-> n, ext |-> "webp"]

\* ------------------------------------------------------------- input files
Kinds ==
  { [w |-> 600,  h |-> 800,  ext |-> "jpg", valid |-> TRUE],
    [w |-> 2000, h |-> 1500, ext |-> "png", valid |-> TRUE],
    [w |-> 700,  h |-> 2200, ext |-> "jpg", valid |-> TRUE],
    [w |-> 1,    h |-> 1,    ext |-> "txt", valid |-> TRUE] }

Page(w, h) == [w |-> w, h |-> h, ext |-> "jpg", valid |-> TRUE]

Scenario1 == <<Page(800, 1000), Page(800, 1100), Page(800, 1050)>>
Scenario2 == <<Page(700, 2200), Page(700, 2300)>>
Scenario3 == <<Page(600, 800), Page(600, 800), Page(600, 800),
               Page(600, 800), Page(600, 800)>>
\* a page that does not decode, ahead of an oversized one
Undecodable == <<[w |-> 1, h |-> 1, ext |-> "jpg", valid |-> FALSE],
                 Page(2000, 1500)>>

FixedSeqs == {Scenario1, Scenario2, Scenario3, Undecodable}
KindSeqs == UNION {[1..n -> Kinds] : n \in 0..MaxImages} \cup FixedSeqs
\* the archives FileHandler::clean is run on
HandlerSeqs == UNION {[1..n -> Kinds] : n \in 0..1} \cup FixedSeqs

EntriesOf(ks) ==
  [i \in 1..Len(ks) |->
     [name |-> [num |-> i, ext |-> ks[i].ext], w |-> ks[i].w, h |-> ks[i].h,
      px |-> i, data |-> TRUE, valid |-> ks[i].valid]]

OtherFile ==
  [fmt |-> "zip", final |-> TRUE,
   entries |-> <<[name |-> [num |-> 1, ext |-> "jpg"], w |-> 600, h |-> 800,
                  px |-> 99, data |-> TRUE, valid |-> TRUE]>>]

FmtOfExt(ext) ==
  IF ext = <<"rar">> THEN "rar" ELSE IF ext = <<"tar">> THEN "tar" ELSE "zip"

CleanerPaths == {<<"a", ".", "zip">>, <<"a", ".", "cbz">>}
HandlerPaths == {<<"a", ".", "zip">>, <<"a", ".", "cbz">>,
                 <<"a", ".", "rar">>, <<"a", ".", "tar">>}
OtherPaths == {<<"a", ".", "cbz">>}

\* ------------------------------------------------------------------- state
VARIABLES
  fs,                  \* the directory: path -> file
  via,                 \* "cleaner" (bin/archive_cleaner.rs) or "handler" (FileHandler::clean)
  file_path,           \* the path the user selected
  max_images_to_check, \* argument of clean_archive_file
  pc,                  \* position of the main thread
  archive_path,        \* ArchiveCleaner.archive_path
  zip_path,            \* zip_path of handle_rar_file / handle_tar_file
  images,              \* the decoded images of this pass
  archive_type,        \* ArchiveCleaner.archive_type
  decision,            \* "unset", "readfail", "none", "Strip", "Paged"
  zw,                  \* the ZipWriter: the file it has open, and whether it is alive
  combined,            \* combined_image of process_manhwa_images
  slice_index,         \* loop variable of process_manhwa_images
  spawned,             \* threads spawned so far by process_images_threaded
  joined,              \* handles joined so far
  wpc,                 \* index -> position of the worker running process_image
  wimg,                \* index -> resized_image
  wres,                \* index -> what process_image returned
  lock,                \* holder of the Mutex, or NoHolder
  poisoned,            \* the Mutex is poisoned
  pb,                  \* position of the overall progress bar
  result,              \* what ArchiveCleaner::clean_archive_file returned
  hresult,             \* what FileHandler::clean returned
  faults,              \* failures of the environment so far
  passes,              \* passes started so far
  fs0,                 \* the directory when the pass started
  renamed,             \* fs::rename succeeded in this pass
  entryErr,            \* start_file or write_all failed in this pass
  hist                 \* the outcome of the pass before this one

vars ==
  <<fs, via, file_path, max_images_to_check, pc, archive_path, zip_path, images,
    archive_type, decision, zw, combined, slice_index, spawned, joined, wpc,
    wimg, wres, lock, poisoned, pb, result, hresult, faults, passes, fs0,
    renamed, entryErr, hist>>

inputVars == <<via, file_path, max_images_to_check>>
stripVars == <<combined, slice_index>>
pagedVars == <<spawned, joined, wpc, wimg, wres, lock, poisoned, pb>>

NoCanvas == [w |-> 0, h |-> 0]
NoWorkers == [i \in {} |-> "none"]
NoHist == [decision |-> "unset", result |-> "none", renamed |-> FALSE]

Init ==
  /\ via \in {"cleaner", "handler"}
  /\ file_path \in (IF via = "cleaner" THEN CleanerPaths ELSE HandlerPaths)
  /\ max_images_to_check \in
       (IF via = "cleaner" THEN MaxImagesToCheckInputs ELSE {HandlerMaxImagesToCheck})
  /\ \E ks \in (IF via = "cleaner" THEN KindSeqs ELSE HandlerSeqs),
        others \in (IF via = "cleaner" THEN SUBSET (OtherPaths \ {file_path}) ELSE {{}}) :
       /\ fs = [p \in {file_path} \cup others |->
                  IF p = file_path
                  THEN [fmt |-> FmtOfExt(extension(file_path)), final |-> TRUE,
                        entries |-> EntriesOf(ks)]
                  ELSE OtherFile]
  /\ pc = "idle"
  /\ archive_path = NoPath
  /\ zip_path = NoPath
  /\ images = <<>>
  /\ archive_type = "Manga"
  /\ decision = "unset"
  /\ zw = NoWriter
  /\ combined = NoCanvas
  /\ slice_index = 0
  /\ spawned = 0
  /\ joined = 0
  /\ wpc = NoWorkers
  /\ wimg = NoWorkers
  /\ wres = NoWorkers
  /\ lock = NoHolder
  /\ poisoned = FALSE
  /\ pb = 0
  /\ result = "none"
  /\ hresult = "none"
  /\ faults = 0
  /\ passes = 0
  /\ fs0 = fs
  /\ renamed = FALSE
  /\ entryErr = FALSE
  /\ hist = NoHist

\* ------------------------------------------------------------ file system
Exists(p) == p \in DOMAIN fs

\* File::create(p): a new empty file, an existing one truncated
FileCreate(f, p) ==
  [q \in DOMAIN f \cup {p} |->
     IF q = p THEN [fmt |-> "zip", final |-> FALSE, entries |-> <<>>] ELSE f[q]]

\* fs::rename(from, to): the file at `from` is now at `to`, replacing what was there
FsRename(f, from, to) ==
  [q \in (DOMAIN f \ {from}) \cup {to} |-> IF q = to THEN f[from] ELSE f[q]]

\* ZipWriter's drop: the central directory is written to the file it has open
DropWriter(f, z) ==
  IF z.open THEN [f EXCEPT ![z.path].final = TRUE] ELSE f

AppendEntry(f, p, e) == [f EXCEPT ![p].entries = Append(@, e)]

\* write_all(&image_data) completes the entry that start_file began
CompleteEntry(f, p, name) ==
  [f EXCEPT ![p].entries =
     [k \in 1..Len(@) |-> IF @[k].name = name THEN [@[k] EXCEPT !.data = TRUE] ELSE @[k]]]

HistRecord == [decision |-> decision, result |-> result, renamed |-> renamed]

\* ------------------------------------------------------------ entry points
\* A run of the program on file_path starts: bin/archive_cleaner.rs calls
\* ArchiveCleaner::new(path).clean_archive_file(n), bin/file_handler.rs calls
\* FileHandler::new(path).clean().
StartPass ==
  /\ pc = "idle"
  /\ passes < MaxPasses
  /\ faults = 0   \* a pass that met a failure is the last one explored
  /\ passes' = passes + 1
  /\ fs0' = fs
  /\ renamed' = FALSE
  /\ entryErr' = FALSE
  /\ images' = <<>>
  /\ archive_type' = "Manga"
  /\ decision' = "unset"
  /\ zw' = NoWriter
  /\ combined' = NoCanvas
  /\ slice_index' = 0
  /\ spawned' = 0
  /\ joined' = 0
  /\ wpc' = NoWorkers
  /\ wimg' = NoWorkers
  /\ wres' = NoWorkers
  /\ lock' = NoHolder
  /\ poisoned' = FALSE
  /\ pb' = 0
  /\ result' = "none"
  /\ hresult' = "none"
  /\ zip_path' = NoPath
  /\ IF via = "cleaner"
     THEN archive_path' = file_path /\ pc' = "read"
     ELSE archive_path' = NoPath /\ pc' = "clean"
  /\ UNCHANGED <<fs, inputVars, faults, hist>>

\* FileHandler::clean: the match on the extension
clean ==
  /\ pc = "clean"
  /\ LET ext == extension(file_path)
     IN \/ /\ ext = <<"zip">>
           /\ pc' = "handle_zip_file"
           /\ UNCHANGED hresult
        \/ /\ ext = <<"rar">>
           /\ pc' = "handle_rar_file"
           /\ UNCHANGED hresult
        \/ /\ ext \in {<<"tar">>, <<"gz">>}
           /\ pc' = "handle_tar_file"
           /\ UNCHANGED hresult
        \/ /\ ext \notin {<<"zip">>, <<"rar">>, <<"tar">>, <<"gz">>, <<"jpg">>,
                          <<"jpeg">>, <<"png">>, <<"bmp">>, <<"gif">>, <<"srt">>,
                          <<"ass">>, <<"mp4">>, <<"mkv">>}
           /\ hresult' = "Err"
           /\ pc' = "exit"
  /\ UNCHANGED <<fs, inputVars, archive_path, zip_path, images, archive_type,
                 decision, zw, stripVars, pagedVars, result, faults, passes, fs0,
                 renamed, entryErr, hist>>

\* rar_to_zip / tar_to_zip succeed: a zip container with the same entries at zip_path
Converted(f, from, to) ==
  [q \in DOMAIN f \cup {to} |->
     IF q = to THEN [fmt |-> "zip", final |-> TRUE, entries |-> f[from].entries]
     ELSE f[q]]

\* handle_rar_file / handle_tar_file
HandleConvert(at) ==
  /\ pc = at
  /\ zip_path' = zip_path_of(extract_file_info(file_path))
  /\ \/ /\ fs' = Converted(fs, file_path, zip_path')
        /\ pc' = "handle_zip_file"
        /\ UNCHANGED <<hresult, faults>>
     \/ /\ faults < MaxFaults
        /\ faults' = faults + 1
        /\ hresult' = "Err"
        /\ pc' = "exit"
        /\ UNCHANGED fs
  /\ UNCHANGED <<inputVars, archive_path, images, archive_type, decision, zw,
                 stripVars, pagedVars, result, passes, fs0, renamed, entryErr, hist>>

handle_rar_file == HandleConvert("handle_rar_file")
handle_tar_file == HandleConvert("handle_tar_file")

\* handle_zip_file -> FileHandler::clean_archive_file: ArchiveCleaner::new(&self.file_path)
handle_zip_file ==
  /\ pc = "handle_zip_file"
  /\ archive_path' = file_path
  /\ pc' = "read"
  /\ UNCHANGED <<fs, inputVars, zip_path, images, archive_type, decision, zw,
                 stripVars, pagedVars, result, hresult, faults, passes, fs0,
                 renamed, entryErr, hist>>

\* ------------------------------------------------- ArchiveCleaner: the pass
\* ZipArchive::new(File::open(path)) succeeds
Readable(p) == Exists(p) /\ fs[p].fmt = "zip" /\ fs[p].final

\* clean_archive_file, lines 89-92: read_images_from_archive
read_images_from_archive ==
  /\ pc = "read"
  /\ \/ /\ Readable(archive_path)
        /\ images' = DecodeEntries(fs[archive_path].entries)
        /\ pc' = "should_write_archive"
        /\ UNCHANGED <<decision, result, faults>>
     \/ /\ \/ ~Readable(archive_path) /\ UNCHANGED faults
           \/ Readable(archive_path) /\ faults < MaxFaults /\ faults' = faults + 1
        /\ decision' = "readfail"
        /\ result' = "Err"
        /\ pc' = "ret"
        /\ UNCHANGED images
  /\ UNCHANGED <<fs, inputVars, archive_path, zip_path, archive_type, zw,
                 stripVars, pagedVars, hresult, passes, fs0, renamed, entryErr, hist>>

\* clean_archive_file, lines 94-101: the decision
clean_archive_file ==
  /\ pc = "should_write_archive"
  /\ LET r == should_write_archive(images, max_images_to_check)
     IN /\ archive_type' = r.archive_type
        /\ IF r.write
           THEN pc' = "write_archive" /\ UNCHANGED <<decision, result>>
           ELSE pc' = "ret" /\ decision' = "none" /\ result' = "Ok"
  /\ UNCHANGED <<fs, inputVars, archive_path, zip_path, images, zw, stripVars,
                 pagedVars, hresult, faults, passes, fs0, renamed, entryErr, hist>>

write_archive ==
  /\ pc = "write_archive"
  /\ IF archive_type = "Manhwa"
     THEN pc' = "process_manhwa_images" /\ decision' = "Strip"
     ELSE pc' = "process_non_manhwa_images" /\ decision' = "Paged"
  /\ UNCHANGED <<fs, inputVars, archive_path, zip_path, images, archive_type, zw,
                 stripVars, pagedVars, result, hresult, faults, passes, fs0,
                 renamed, entryErr, hist>>

\* ------------------------------------------------------------------- Strip
\* process_manhwa_images, lines 198-209: the temporary container and the canvas
manhwa_create ==
  /\ pc = "process_manhwa_images"
  /\ LET temp == temp_archive_path(extract_file_info(archive_path))
     IN \/ /\ fs' = FileCreate(fs, temp)
           /\ zw' = [path |-> temp, open |-> TRUE]
           /\ combined' = combine_images(images)
           /\ slice_index' = 0
           /\ pc' = "slice"
           /\ UNCHANGED <<result, faults>>
        \/ /\ faults < MaxFaults
           /\ faults' = faults + 1
           /\ result' = "Err"
           /\ pc' = "ret"
           /\ UNCHANGED <<fs, zw, combined, slice_index>>
  /\ UNCHANGED <<inputVars, archive_path, zip_path, images, archive_type,
                 decision, pagedVars, hresult, passes, fs0, renamed, entryErr, hist>>

\* the entry of one band; its picture is the canvas from row y_offset on
BandEntry(canvas, index, written) ==
  [name |-> webp_name(index + 1), w |-> crop_image(canvas, index).w,
   h |-> crop_image(canvas, index).h, px |-> crop_image(canvas, index).y,
   data |-> written, valid |-> TRUE]

\* process_manhwa_images, lines 211-223: one turn of the loop
manhwa_slice ==
  /\ pc = "slice"
  /\ slice_index < num_slices(combined.h)
  /\ \/ /\ fs' = AppendEntry(fs, zw.path, BandEntry(combined, slice_index, TRUE))
        /\ slice_index' = slice_index + 1
        /\ UNCHANGED <<pc, zw, result, faults, entryErr>>
     \/ /\ faults < MaxFaults
        /\ faults' = faults + 1
        /\ result' = "Err"
        /\ pc' = "ret"
        /\ zw' = NoWriter
        /\ UNCHANGED slice_index
        /\ \/ \* encode_webp fails
              /\ fs' = DropWriter(fs, zw)
              /\ UNCHANGED entryErr
           \/ \* start_file fails
              /\ fs' = DropWriter(fs, zw)
              /\ entryErr' = TRUE
           \/ \* write_all fails
              /\ fs' = DropWriter(
                         AppendEntry(fs, zw.path, BandEntry(combined, slice_index, FALSE)), zw)
              /\ entryErr' = TRUE
  /\ UNCHANGED <<inputVars, archive_path, zip_path, images, archive_type,
                 decision, combined, pagedVars, hresult, passes, fs0, renamed, hist>>

manhwa_loop_end ==
  /\ pc = "slice"
  /\ slice_index >= num_slices(combined.h)
  /\ pc' = "manhwa_rename"
  /\ UNCHANGED <<fs, inputVars, archive_path, zip_path, images, archive_type,
                 decision, zw, stripVars, pagedVars, result, hresult, faults,
                 passes, fs0, renamed, entryErr, hist>>

\* fs::rename(temp_archive_path, dir_path.join(format!("{}.cbz", name)))?, then
\* Ok(()) or the error; `at` is the rename of lines 227 or 248
Rename(at, next) ==
  /\ pc = at
  /\ LET name == extract_file_info(archive_path)
     IN \/ /\ fs' = FsRename(fs, temp_archive_path(name), cbz_archive_path(name))
           /\ zw' = [zw EXCEPT !.path = cbz_archive_path(name)]
           /\ renamed' = TRUE
           /\ result' = "Ok"
           /\ pc' = next
           /\ UNCHANGED faults
        \/ /\ faults < MaxFaults
           /\ faults' = faults + 1
           /\ fs' = DropWriter(fs, zw)
           /\ zw' = NoWriter
           /\ result' = "Err"
           /\ pc' = "ret"
           /\ UNCHANGED renamed
  /\ UNCHANGED <<inputVars, archive_path, zip_path, images, archive_type,
                 decision, stripVars, pagedVars, hresult, passes, fs0, entryErr, hist>>

\* the function returns: its ZipWriter goes out of scope
ScopeEnd(at) ==
  /\ pc = at
  /\ fs' = DropWriter(fs, zw)
  /\ zw' = NoWriter
  /\ pc' = "ret"
  /\ UNCHANGED <<inputVars, archive_path, zip_path, images, archive_type,
                 decision, stripVars, pagedVars, result, hresult, faults, passes,
                 fs0, renamed, entryErr, hist>>

manhwa_rename == Rename("manhwa_rename", "manhwa_return")
manhwa_return == ScopeEnd("manhwa_return")

\* ------------------------------------------------------------------- Paged
Indices == 0..(Len(images) - 1)

\* process_non_manhwa_images, lines 233-246: the temporary container, the
\* Mutex around its writer, the progress bar
non_manhwa_create ==
  /\ pc = "process_non_manhwa_images"
  /\ LET temp == temp_archive_path(extract_file_info(archive_path))
     IN \/ /\ fs' = FileCreate(fs, temp)
           /\ zw' = [path |-> temp, open |-> TRUE]
           /\ lock' = NoHolder
           /\ poisoned' = FALSE
           /\ pb' = 0
           /\ spawned' = 0
           /\ joined' = 0
           /\ wpc' = [i \in Indices |-> "unspawned"]
           /\ wimg' = [i \in Indices |-> images[i + 1]]
           /\ wres' = [i \in Indices |-> "none"]
           /\ pc' = "process_images_threaded"
           /\ UNCHANGED <<result, faults>>
        \/ /\ faults < MaxFaults
           /\ faults' = faults + 1
           /\ result' = "Err"
           /\ pc' = "ret"
           /\ UNCHANGED <<fs, zw, pagedVars>>
  /\ UNCHANGED <<inputVars, archive_path, zip_path, images, archive_type,
                 decision, stripVars, hresult, passes, fs0, renamed, entryErr, hist>>

mainVars ==
  <<inputVars, archive_path, zip_path, images, archive_type, decision, stripVars,
    result, hresult, passes, fs0, renamed, hist>>

\* process_images_threaded, lines 28-52: thread::spawn for the next index
spawn ==
  /\ pc = "process_images_threaded"
  /\ spawned < Len(images)
  /\ wpc' = [wpc EXCEPT ![spawned] = "lock"]
  /\ spawned' = spawned + 1
  /\ UNCHANGED <<mainVars, pc, fs, zw, joined, wimg, wres, lock, poisoned, pb,
                 faults, entryErr>>

\* as join, with the outcome of handle.join() dropped instead of expected
join_ignoring_panic ==
  /\ pc = "process_images_threaded"
  /\ spawned = Len(images)
  /\ joined < Len(images)
  /\ wpc[joined] \in {"ret", "panicked"}
  /\ joined' = joined + 1
  /\ UNCHANGED <<pc, fs, zw, result>>
  /\ UNCHANGED <<inputVars, archive_path, zip_path, images, archive_type,
                 decision, stripVars, hresult, passes, fs0, renamed, hist,
                 spawned, wpc, wimg, wres, lock, poisoned, pb, faults, entryErr>>

\* process_images_threaded, lines 54-56: handle.join().expect("Thread panicked")
join ==
  /\ pc = "process_images_threaded"
  /\ spawned = Len(images)
  /\ joined < Len(images)
  /\ \/ /\ wpc[joined] = "ret"
        /\ joined' = joined + 1
        /\ UNCHANGED <<pc, fs, zw, result>>
     \/ /\ wpc[joined] = "panicked"
        /\ result' = "Panic"
        /\ pc' = "panicked"
        /\ fs' = DropWriter(fs, zw)
        /\ zw' = NoWriter
        /\ UNCHANGED joined
  /\ UNCHANGED <<inputVars, archive_path, zip_path, images, archive_type,
                 decision, stripVars, hresult, passes, fs0, renamed, hist,
                 spawned, wpc, wimg, wres, lock, poisoned, pb, faults, entryErr>>

\* process_images_threaded, line 57, and its return
threaded_return ==
  /\ pc = "process_images_threaded"
  /\ spawned = Len(images)
  /\ joined = Len(images)
  /\ pc' = "non_manhwa_rename"
  /\ UNCHANGED <<mainVars, fs, zw, pagedVars, faults, entryErr>>

non_manhwa_rename == Rename("non_manhwa_rename", "non_manhwa_return")
non_manhwa_return == ScopeEnd("non_manhwa_return")

\* as file_name, without the + 1
file_name_zero_based(index) == webp_name(index)

\* process_image, line 290
file_name(index) == webp_name(index + 1)

\* as Leave, the guard of the Mutex outliving the return
Leave_keeping_guard(index, r, inc) ==
  /\ wres' = [wres EXCEPT ![index] = r]
  /\ wpc' = [wpc EXCEPT ![index] = "ret"]
  /\ lock' = lock
  /\ pb' = pb + inc

\* the worker of `index` leaves process_image with outcome r; the guard of the
\* Mutex is dropped
Leave(index, r, inc) ==
  /\ wres' = [wres EXCEPT ![index] = r]
  /\ wpc' = [wpc EXCEPT ![index] = "ret"]
  /\ lock' = IF lock = index THEN NoHolder ELSE lock
  /\ pb' = pb + inc

\* process_image, lines 262-267: zip_writer.lock(); it fails only on a poisoned
\* Mutex, and the worker returns Err("Failed to lock ZipWriter: ..")
worker_lock(index) ==
  /\ wpc[index] = "lock"
  /\ lock = NoHolder
  /\ IF poisoned
     THEN Leave(index, "LockErr", 0)
     ELSE /\ lock' = index
          /\ wpc' = [wpc EXCEPT ![index] = "check"]
          /\ UNCHANGED <<wres, pb>>
  /\ UNCHANGED <<fs, wimg, poisoned, faults, entryErr>>

\* process_image, lines 270-277: the criteria of this image, then image.thumbnail
worker_check(index) ==
  /\ wpc[index] = "check"
  /\ IF image_meets_criteria(images[index + 1].w, images[index + 1].h)
     THEN /\ wimg' = [wimg EXCEPT ![index] =
                        thumbnail(images[index + 1], IMAGE_SIZE[1], IMAGE_SIZE[2])]
          /\ wpc' = [wpc EXCEPT ![index] = "encode"]
          /\ UNCHANGED <<wres, lock, pb>>
     ELSE Leave(index, "Err", 1) /\ UNCHANGED wimg
  /\ UNCHANGED <<fs, poisoned, faults, entryErr>>

\* process_image, lines 280-287: encode_webp
worker_encode(index) ==
  /\ wpc[index] = "encode"
  /\ \/ /\ wpc' = [wpc EXCEPT ![index] = "start_file"]
        /\ UNCHANGED <<wres, lock, pb, faults>>
     \/ /\ faults < MaxFaults
        /\ faults' = faults + 1
        /\ Leave(index, "Err", 1)
  /\ UNCHANGED <<fs, wimg, poisoned, entryErr>>

\* the entry a worker appends
PageEntry(index, written) ==
  [name |-> file_name(index), w |-> wimg[index].w, h |-> wimg[index].h,
   px |-> wimg[index].px, data |-> written, valid |-> TRUE]

\* process_image, lines 293-296: zip_writer.start_file
worker_start_file(index) ==
  /\ wpc[index] = "start_file"
  /\ \/ /\ fs' = AppendEntry(fs, zw.path, PageEntry(index, FALSE))
        /\ wpc' = [wpc EXCEPT ![index] = "write_all"]
        /\ UNCHANGED <<wres, lock, pb, faults, entryErr>>
     \/ /\ faults < MaxFaults
        /\ faults' = faults + 1
        /\ entryErr' = TRUE
        /\ Leave(index, "Err", 0)
        /\ UNCHANGED fs
  /\ UNCHANGED <<wimg, poisoned>>

\* process_image, lines 299-303: zip_writer.write_all, then the progress and Ok(())
worker_write_all(index) ==
  /\ wpc[index] = "write_all"
  /\ \/ /\ fs' = CompleteEntry(fs, zw.path, file_name(index))
        /\ Leave(index, "Ok", 1)
        /\ UNCHANGED <<faults, entryErr>>
     \/ /\ faults < MaxFaults
        /\ faults' = faults + 1
        /\ entryErr' = TRUE
        /\ Leave(index, "Err", 0)
        /\ UNCHANGED fs
  /\ UNCHANGED <<wimg, poisoned>>

\* a panic inside process_image unwinds the thread: the guard is dropped
\* during the unwinding and the Mutex is poisoned
worker_panic(index) ==
  /\ wpc[index] \in {"check", "encode", "start_file", "write_all"}
  /\ faults < MaxFaults
  /\ faults' = faults + 1
  /\ poisoned' = TRUE
  /\ lock' = NoHolder
  /\ wpc' = [wpc EXCEPT ![index] = "panicked"]
  /\ UNCHANGED <<fs, wimg, wres, pb, entryErr>>

\* the thread of `index`: the closure of lines 45-49 around process_image
process_image(index) ==
  /\ pc = "process_images_threaded"
  /\ \/ worker_lock(index)
     \/ worker_check(index)
     \/ worker_encode(index)
     \/ worker_start_file(index)
     \/ worker_write_all(index)
     \/ worker_panic(index)
  /\ UNCHANGED <<mainVars, pc, zw, spawned, joined>>

\* ----------------------------------------------------------- end of a pass
\* clean_archive_file has returned (or FileHandler::clean gave up before it):
\* FileHandler::clean_archive_file prints the outcome and returns Ok(())
EndPass ==
  /\ pc \in {"ret", "exit"}
  /\ hresult' = IF via = "handler" /\ pc = "ret" THEN "Ok" ELSE hresult
  /\ hist' = HistRecord
  /\ pc' = "idle"
  /\ UNCHANGED <<fs, inputVars, archive_path, zip_path, images, archive_type,
                 decision, zw, stripVars, pagedVars, result, faults, passes, fs0,
                 renamed, entryErr>>

Next ==
  \/ StartPass
  \/ clean
  \/ handle_rar_file
  \/ handle_tar_file
  \/ handle_zip_file
  \/ read_images_from_archive
  \/ clean_archive_file
  \/ write_archive
  \/ manhwa_create
  \/ manhwa_slice
  \/ manhwa_loop_end
  \/ manhwa_rename
  \/ manhwa_return
  \/ non_manhwa_create
  \/ spawn
  \/ join
  \/ threaded_return
  \/ non_manhwa_rename
  \/ non_manhwa_return
  \/ \E index \in Indices : process_image(index)
  \/ EndPass

Spec == Init /\ [][Next]_vars

\* The threads of a Paged pass under a fair scheduler: the main thread (the
\* body of process_non_manhwa_images and process_images_threaded) and the
\* thread of every index each take a step when they stay able to.
PagedMain ==
  \/ non_manhwa_create
  \/ spawn
  \/ join
  \/ threaded_return
  \/ non_manhwa_rename
  \/ non_manhwa_return

WorkerIds == UNION {0..(Len(ks) - 1) : ks \in KindSeqs \cup HandlerSeqs}

Worker(index) == index \in Indices /\ process_image(index)

FairSpec ==
  /\ Spec
  /\ WF_vars(PagedMain)
  /\ \A index \in WorkerIds : WF_vars(Worker(index))

\* =================================================================== claims
InPass == pc \notin {"idle", "clean", "handle_rar_file", "handle_tar_file",
                     "handle_zip_file", "exit"}
TempOfPass == temp_archive_path(extract_file_info(archive_path))
Sampled == 1..Min(max_images_to_check, Len(images))
Meets(i) == image_meets_criteria(images[i].w, images[i].h)
WorkersExist == DOMAIN wpc = Indices /\ Indices # {}
JustRenamed == pc \in {"manhwa_return", "non_manhwa_return"}

\* C1: after a pass that rewrites and succeeds, the new container is at
\* exactly the path the input was read from, whatever the extension of the
\* input, and no other file that was in the directory has been replaced or
\* overwritten.
C1_NewContainerAtInputPath ==
  JustRenamed =>
    /\ zw.path = archive_path
    /\ \A p \in DOMAIN fs0 \ {archive_path} : p \in DOMAIN fs /\ fs[p] = fs0[p]

\* C2: when start_file or write_all failed for some entry, in Strip mode or in
\* a Paged worker, clean_archive_file returns an error, the rename is never
\* performed and the original archive is unmodified.
C2_EntryWriteFailureIsFatal ==
  (pc = "ret" /\ entryErr) =>
    /\ result = "Err"
    /\ ~renamed
    /\ fs[archive_path] = fs0[archive_path]

\* C3: when the archive was read and none of the first max_images_to_check
\* decoded images meets its criterion, the pass creates, writes and renames
\* nothing: the directory is as it was when the pass started, no writer was
\* ever opened, and clean_archive_file returns Ok.
C3_NoMatchNoEffect ==
  (InPass /\ pc # "read" /\ decision # "readfail"
     /\ \A i \in Sampled : ~Meets(i)) =>
    /\ fs = fs0
    /\ zw = NoWriter
    /\ ~renamed
    /\ pc \in {"should_write_archive", "ret"}
    /\ (pc = "ret" => result = "Ok" /\ decision = "none")

\* C3 witness: a pass has returned without rewriting an archive whose second
\* image, outside the sample of one, is oversized
C3_Witness ==
  /\ pc = "ret"
  /\ decision = "none"
  /\ max_images_to_check = 1
  /\ Len(images) = 2
  /\ ~Meets(1)
  /\ Meets(2)

\* C4: in a Paged pass, an image whose worker found it below the criterion and
\* wrote no entry is still in the archive after the pass: the archive is
\* unchanged, or holds every decoded page.
C4_SkippedPageNotLost ==
  (pc = "ret" /\ decision = "Paged" /\ WorkersExist /\ result = "Ok") =>
    \A i \in Indices :
      (wres[i] = "Err" /\ ~Meets(i + 1)) =>
        \E k \in 1..Len(fs[archive_path].entries) :
          /\ fs[archive_path].entries[k].px = images[i + 1].px
          /\ fs[archive_path].entries[k].data

\* C5: at the step that renames the temporary container, every entry has been
\* written and the writer has been finalized and closed.
C5_RenameAfterFinalize ==
  [][(~renamed /\ renamed') => (~zw.open /\ fs[TempOfPass].final)]_vars

\* C6: every entry of the container being written is named <positive
\* integer>.webp, no name occurs twice; in Paged mode the entry k.webp holds
\* the picture of the decoded image of ordinal k-1, whatever the order of the
\* workers, and when nothing failed the names are exactly those of the images
\* that meet the criterion.
C6_OutputNames ==
  zw.open =>
    LET es == fs[zw.path].entries
    IN /\ \A k \in 1..Len(es) :
            /\ es[k].name.ext = "webp"
            /\ es[k].name.num \in Nat \ {0}
       /\ \A j, k \in 1..Len(es) : es[j].name = es[k].name => j = k
       /\ decision = "Paged" =>
            /\ \A k \in 1..Len(es) :
                 /\ es[k].name.num \in 1..Len(images)
                 /\ es[k].px = images[es[k].name.num].px
            /\ (pc = "non_manhwa_rename" /\ faults = 0) =>
                 {es[k].name.num : k \in 1..Len(es)}
                   = {i \in 1..Len(images) : Meets(i)}

\* C6 witness: two workers have appended their entries, the second image's first
C6_Witness ==
  /\ pc = "non_manhwa_rename"
  /\ zw.open
  /\ Len(fs[zw.path].entries) = 2
  /\ fs[zw.path].entries[1].name.num = 2
  /\ fs[zw.path].entries[2].name.num = 1

IsScenario1 ==
  /\ archive_path \in DOMAIN fs0
  /\ fs0[archive_path].entries = EntriesOf(Scenario1)
  /\ max_images_to_check = 5

HasThreeSmallPages(f) ==
  /\ Len(f.entries) = 3
  /\ {f.entries[k].name : k \in 1..3} = {webp_name(1), webp_name(2), webp_name(3)}
  /\ \A k \in 1..3 : f.entries[k].w <= 1024 /\ f.entries[k].h <= 1024

\* C7 as stated: the archive of pages 800x1000, 800x1100, 800x1050 is
\* rewritten as Paged and the output has exactly 1.webp, 2.webp, 3.webp, each
\* at most 1024x1024.
C7_Scenario1Rewritten ==
  (pc = "ret" /\ IsScenario1 /\ result = "Ok") =>
    /\ decision = "Paged"
    /\ \E p \in DOMAIN fs : HasThreeSmallPages(fs[p])

\* C7 amended: for the archive of pages 800x1000, 800x1100, 800x1050, read
\* with threshold 1024x1024 and max_images_to_check = 5, no image meets its
\* criterion (no width is above 1024): the pass does not rewrite, the
\* directory is unchanged and clean_archive_file returns Ok.
C7_Scenario1NotRewritten ==
  (pc = "ret" /\ IsScenario1 /\ decision # "readfail") =>
    /\ decision = "none"
    /\ result = "Ok"
    /\ fs = fs0
    /\ Len(fs[archive_path].entries) = 3

\* C7 witness: a pass over scenario 1 has returned
C7_Witness ==
  /\ pc = "ret"
  /\ IsScenario1
  /\ Len(images) = 3
  /\ images[2].w = 800 /\ images[2].h = 1100
  /\ result = "Ok"

\* C8: after a pass that rewrote an oversized strip archive, the next pass on
\* the same path decides not to rewrite and changes nothing.
C8_StripIdempotent ==
  (pc = "ret" /\ hist.decision = "Strip" /\ hist.renamed /\ hist.result = "Ok"
     /\ decision # "readfail") =>
    /\ decision = "none"
    /\ fs = fs0

\* C9: given a rar or tar container, FileHandler::clean hands the core the
\* path of the zip container the conversion produced, never the path of the
\* rar or tar file, and only after the conversion succeeded.
C9_CoreGetsConvertedPath ==
  (via = "handler" /\ extension(file_path) \in {<<"rar">>, <<"tar">>}
     /\ archive_path # NoPath) =>
    /\ zip_path # NoPath
    /\ Exists(zip_path)
    /\ archive_path = zip_path
    /\ archive_path # file_path

\* C10: a Paged worker re-checks the criterion, resizes and encodes without
\* holding the lock of the writer; it holds the lock only to append its entry.
C10_ComputeOutsideLock ==
  pc = "process_images_threaded" =>
    \A i \in DOMAIN wpc :
      wpc[i] \in {"check", "encode"} => lock # i

\* C11: once a Paged worker has failed to acquire the writer lock, the pass is
\* fatal: it is still running its workers or the main thread has panicked, the
\* temporary container has not been renamed over the original and the pass
\* has not reported success.
LockFailed == \E i \in DOMAIN wres : wres[i] = "LockErr"
C11_LockFailureIsFatal ==
  LockFailed =>
    /\ pc \in {"process_images_threaded", "panicked"}
    /\ ~renamed
    /\ result \notin {"Ok", "Err"}
    /\ fs[archive_path] = fs0[archive_path]

\* a worker failed to lock, every worker has ended and the main thread has
\* panicked in its join
C11_Witness ==
  /\ LockFailed
  /\ pc = "panicked"
  /\ result = "Panic"
  /\ \A i \in DOMAIN wpc : wpc[i] \in {"ret", "panicked"}

\* C12: every Paged worker increments the overall progress counter exactly
\* once on every exit path, so once all workers have been joined the counter
\* equals the number of images of the pass.
C12_ProgressCountsEveryWorker ==
  /\ pb = Cardinality({i \in DOMAIN wpc : wpc[i] = "ret"})
  /\ (pc \in {"non_manhwa_rename", "non_manhwa_return"} /\ joined = Len(images))
       => pb = Len(images)

\* the criteria as the claim words them, for the i-th decoded image
StripCriterion(i) ==
  images[i].h >= 3 * images[i].w /\ images[i].h > IMAGE_SIZE[2]
PagedCriterion(i) ==
  /\ images[i].h < 3 * images[i].w
  /\ images[i].w > IMAGE_SIZE[1]
  /\ images[i].h > IMAGE_SIZE[2]
Matches == {i \in Sampled : StripCriterion(i) \/ PagedCriterion(i)}
FirstMatch == CHOOSE i \in Matches : \A j \in Matches : i <= j
Classified == pc \notin {"idle", "clean", "handle_rar_file", "handle_tar_file",
                         "handle_zip_file", "exit", "read", "should_write_archive",
                         "write_archive"}
                /\ decision # "readfail"

\* C13: the classifier is first-match over the sampled prefix: the pass
\* rewrites iff some image among the first max_images_to_check decoded images
\* meets its own criterion, and the transform is the layout kind of the
\* lowest-index such image; nothing else of the archive enters the decision.
C13_FirstMatchClassifier ==
  /\ Classified =>
       decision = IF Matches = {} THEN "none"
                  ELSE IF StripCriterion(FirstMatch) THEN "Strip" ELSE "Paged"
  /\ pc = "write_archive" =>
       /\ Matches # {}
       /\ archive_type = IF StripCriterion(FirstMatch) THEN "Manhwa" ELSE "Manga"
  /\ pc \in {"slice", "manhwa_rename", "manhwa_return"} => decision = "Strip"
  /\ pc \in {"process_images_threaded", "non_manhwa_rename", "non_manhwa_return",
              "panicked"} => decision = "Paged"
  /\ zw # NoWriter => decision \in {"Strip", "Paged"}

\* a Paged pass whose first image is an oversized page and whose second,
\* sampled too, is an oversized strip
C13_Witness ==
  /\ pc = "process_images_threaded"
  /\ decision = "Paged"
  /\ max_images_to_check >= 2
  /\ Len(images) = 2
  /\ PagedCriterion(1)
  /\ StripCriterion(2)

\* the canvas height and the number of bands as the claim words them
CanvasHeight ==
  LET S[k \in 0..Len(images)] == IF k = 0 THEN 0 ELSE S[k - 1] + images[k].h
  IN S[Len(images)]
BandHeight == IMAGE_SIZE[2]
CeilBands ==
  CHOOSE n \in 0..(CanvasHeight \div BandHeight + 1) :
    (n - 1) * BandHeight < CanvasHeight /\ CanvasHeight <= n * BandHeight
StripWritten == pc \in {"manhwa_rename", "manhwa_return"}

\* C14: a Strip pass that has written its bands has written exactly
\* ceil(H / T) entries named 1.webp .. ceil(H / T).webp in canvas order, band i
\* covering the rows [(i - 1) * T, min(i * T, H)); every band is non-empty, all
\* but possibly the last have height T, they are contiguous and their heights
\* sum to H.  While the loop runs, the bands written so far are the first ones.
C14_StripBands ==
  /\ StripWritten => Len(fs[zw.path].entries) = CeilBands
  /\ pc = "slice" =>
       Len(fs[zw.path].entries) = slice_index /\ slice_index <= CeilBands
  /\ (StripWritten \/ pc = "slice") =>
       LET es == fs[zw.path].entries
           n == Len(es)
           Total[k \in 0..n] == IF k = 0 THEN 0 ELSE Total[k - 1] + es[k].h
       IN /\ \A k \in 1..n :
               /\ es[k].name = [num |-> k, ext |-> "webp"]
               /\ es[k].data
               /\ es[k].px = (k - 1) * BandHeight
               /\ es[k].px + es[k].h = Min(k * BandHeight, CanvasHeight)
               /\ es[k].h > 0
               /\ k < CeilBands => es[k].h = BandHeight
               /\ k > 1 => es[k].px = es[k - 1].px + es[k - 1].h
          /\ StripWritten => Total[n] = CanvasHeight

\* the bands of a canvas whose height is no multiple of T have been written:
\* three or more, the last one shorter
C14_Witness ==
  /\ StripWritten
  /\ Len(fs[zw.path].entries) >= 3
  /\ CanvasHeight % BandHeight # 0
  /\ fs[zw.path].entries[Len(fs[zw.path].entries)].h < BandHeight

\* a worker holds the writer lock exactly while it is between the lock and
\* its return
LockHeldOnlyInside ==
  \A i \in DOMAIN wpc :
    (lock = i) <=> (wpc[i] \in {"check", "encode", "start_file", "write_all"})
\* the rename is attempted only after every worker was spawned and joined
JoinedBeforeRename ==
  pc \in {"non_manhwa_rename", "non_manhwa_return"} =>
    /\ spawned = Len(images)
    /\ joined = Len(images)
    /\ \A i \in DOMAIN wpc : wpc[i] = "ret"
    /\ lock = NoHolder
\* the pass has ended: by the rename, or fatally
PagedEnded ==
  \/ pc = "ret" /\ renamed /\ result = "Ok"
  \/ pc = "ret" /\ ~renamed /\ result = "Err"
  \/ pc = "panicked" /\ ~renamed /\ result = "Panic"

\* C15: under fair scheduling every Paged pass terminates: a worker releases
\* the writer lock on every exit path, no interleaving of the workers
\* deadlocks, every spawned worker is joined before the rename is attempted,
\* and the pass ends either by performing the rename or by failing fatally.
C15_PagedPassTerminates ==
  /\ [](LockHeldOnlyInside /\ JoinedBeforeRename)
  /\ (pc = "process_non_manhwa_images") ~> PagedEnded

\* a Paged pass of two workers, both through the lock, has performed the rename
C15_Witness ==
  /\ pc = "non_manhwa_return"
  /\ decision = "Paged"
  /\ renamed
  /\ Len(images) = 2
  /\ joined = 2
  /\ \A i \in DOMAIN wres : wres[i] \in {"Ok", "Err"}
====
